---- MODULE Spec2Model ----
(***************************************************************************)
(* A model of taskarian's Task (src/src/Task.ts, the class that starts at  *)
(* line 124): one fork of a Task built with map, do, mapError, elseDo,     *)
(* assign, andThen, orElse, all, race or loop from leaf Tasks, under       *)
(* JavaScript's single-threaded event loop.                                *)
(* Every action is one event-loop turn: the consumer's fork, the consumer  *)
(* invoking the returned cancel handle, a leaf settling asynchronously, or *)
(* loop's timer firing.  The callbacks a turn runs synchronously are part  *)
(* of that action.                                                         *)
(*                                                                         *)
(* A leaf settles at most once per fork.  The consumer invokes the cancel  *)
(* handle in a turn of its own, after fork has returned it, and not from   *)
(* inside its resolve / reject callback.  trace records every call that    *)
(* can be observed from outside the combinators: the fork and the cancel   *)
(* handle of each leaf, each leaf's settlement, the function given to      *)
(* andThen / orElse, loop's timer, and the consumer's callbacks.           *)
(*                                                                         *)
(* Spec builds the Task and forks it once.  SpecTwice forks it twice: the  *)
(* execution whose turn it is lives in the variables, the other one waits  *)
(* in second, and Switch gives the turn to the other.                      *)
(***************************************************************************)
EXTENDS Integers, Sequences, FiniteSets, TLC

\* Bounds of the model.
NumTasks == 3       \* longest list given to all / race
MaxAttempts == 3    \* attempts of the wrapped task a loop may start
MaxCancels == 2     \* times the consumer invokes the returned cancel handle
TwiceTasks == 2     \* leaves of a Task that is forked twice
TwiceCancels == 1   \* cancel handle invocations, in all, on a Task forked twice

Max(a, b) == IF a >= b THEN a ELSE b

MaxLeaves == Max(Max(2, TwiceTasks), Max(NumTasks, MaxAttempts))

Leaves == 1..MaxLeaves

Scenarios ==
    {"succeed", "fail", "fromPromise", "andThenP",
     "map", "do", "mapError", "elseDo", "assign", "assignFn",
     "andThen", "orElse", "all", "race", "loop"}

\* The values and errors given to succeed and fail.
Payloads == {42, 8}

\* How a leaf Task behaves when forked.
\*   syncOk / syncErr : calls resolve / reject before fork returns
\*   asyncHonor       : settles in a later turn; its cancel handle stops it
\*   asyncIgnore      : settles in a later turn; its cancel handle does nothing
Modes == {"syncOk", "syncErr", "asyncHonor", "asyncIgnore"}

VARIABLES
    executions,      \* how many times the consumer forks the Task under test
    constructed,     \* the Task under test has been built
    second,          \* another execution of the same Task, while it is not running
    scenario,        \* which combinator built the Task under test
    payload,         \* succeed / fail: the value or error given
    length,          \* all / race: tasks.length; andThen / orElse / assign: 2 stages;
                     \* map / do / mapError / elseDo: 1; loop: attempts allowed
    mode,            \* behaviour of each leaf
    started,         \* the consumer's fork has returned a cancel handle
    ncancel,         \* how often the consumer has invoked that handle
    leaf,            \* execution state of each leaf
    trace,           \* every observable call, in order
    innerCancel,     \* andThen / orElse: let innerCancel
    resolved,        \* all: let resolved
    results,         \* all: const results (0 is a hole)
    all_cancels,     \* all: const cancels, a table index -> handle
    status,          \* race: let status
    race_cancels,    \* race: const cancels, a list of handles
    timeout,         \* loop: let timeout
    internalCancel,  \* loop: let internalCancel (0 is undefined, k is the handle of attempt k)
    isCancelled      \* loop: let isCancelled

config == <<executions, scenario, payload, length, mode>>

\* How often the consumer may invoke the cancel handle of the running execution.
CancelLimit ==
    IF executions = 2 THEN TwiceCancels - second.ncancel ELSE MaxCancels

vars == <<executions, constructed, second, scenario, payload, length, mode, started, ncancel, leaf, trace, innerCancel,
          resolved, results, all_cancels, status, race_cancels, timeout,
          internalCancel, isCancelled>>

\* The success value and the error of leaf i.
ValueOf(i) == i

ErrorOf(i) == 0 - i

Ev(e, x) == [ev |-> e, arg |-> <<x>>]

\* The mutable state a turn reads and writes, as one record.
St ==
    [leaf |-> leaf, trace |-> trace, innerCancel |-> innerCancel,
     resolved |-> resolved, results |-> results, all_cancels |-> all_cancels,
     status |-> status, race_cancels |-> race_cancels, timeout |-> timeout,
     internalCancel |-> internalCancel, isCancelled |-> isCancelled]

Commit(s) ==
    /\ leaf' = s.leaf
    /\ trace' = s.trace
    /\ innerCancel' = s.innerCancel
    /\ resolved' = s.resolved
    /\ results' = s.results
    /\ all_cancels' = s.all_cancels
    /\ status' = s.status
    /\ race_cancels' = s.race_cancels
    /\ timeout' = s.timeout
    /\ internalCancel' = s.internalCancel
    /\ isCancelled' = s.isCancelled

\* An execution that has not begun: the consumer has not called fork, and the
\* variables the computation function declares hold their initial values.
NewExecution ==
    [st |-> [leaf |-> [i \in Leaves |-> "unforked"], trace |-> <<>>,
             innerCancel |-> "undefined", resolved |-> 0,
             results |-> [i \in Leaves |-> 0],
             all_cancels |-> [i \in Leaves |-> "absent"],
             status |-> "waiting", race_cancels |-> <<>>,
             timeout |-> "undefined", internalCancel |-> 0,
             isCancelled |-> FALSE],
     started |-> FALSE, ncancel |-> 0]

Log(s, e) == [s EXCEPT !.trace = Append(@, e)]

\* The consumer's callbacks, handed to fork.
Resolve(s, v) == Log(s, Ev("resolve", v))

Reject(s, e) == Log(s, Ev("reject", e))

\* A callback handed to fork is a closure: the function it runs and the index
\* it captured (0 if none).  Call, defined below the combinators, applies it.
Cb(fn) == [fn |-> fn, idx |-> 0]

CbIdx(fn, idx) == [fn |-> fn, idx |-> idx]

RECURSIVE Call(_, _, _)

\* task.fork(reject, resolve) on leaf i: a synchronous leaf calls its callback
\* before fork returns.
Fork(s, i, reject, resolve) ==
    LET s1 == Log(s, Ev("fork", i))
    IN  CASE mode[i] = "syncOk" ->
               Call(resolve, Log([s1 EXCEPT !.leaf[i] = "resolved"], Ev("ok", i)),
                    ValueOf(i))
          [] mode[i] = "syncErr" ->
               Call(reject, Log([s1 EXCEPT !.leaf[i] = "rejected"], Ev("err", i)),
                    ErrorOf(i))
          [] OTHER -> [s1 EXCEPT !.leaf[i] = "pending"]

\* A pending leaf settles in a later turn and calls the callback it was given.
Settle(s, i, ok, reject, resolve) ==
    IF ok
    THEN Call(resolve, Log([s EXCEPT !.leaf[i] = "resolved"], Ev("ok", i)),
              ValueOf(i))
    ELSE Call(reject, Log([s EXCEPT !.leaf[i] = "rejected"], Ev("err", i)),
              ErrorOf(i))

\* The cancel handle fork returned for leaf i is invoked.
CancelLeaf(s, i) ==
    LET s1 == Log(s, Ev("cancel", i))
    IN  IF s.leaf[i] = "pending" /\ mode[i] = "asyncHonor"
        THEN [s1 EXCEPT !.leaf[i] = "stopped"]
        ELSE s1

\* The consumer invokes the cancel handle of the composed Task for the
\* (ncancel + 1)-th time.
CancelCall(s) == Log(s, Ev("cancelCall", ncancel + 1))

-----------------------------------------------------------------------------
\* t.andThen(f): leaf 1 is t, leaf 2 is the Task f returns.

AndThenOnResolve(s, a) ==
    LET s1 == Fork(Log(s, Ev("f", a)), 2, Cb("reject"), Cb("resolve"))
    IN  [s1 EXCEPT !.innerCancel = "set"]

\* Mutant: the error callback hands the error to f as well.
AndThenOnReject_InvokesF(s, err) == AndThenOnResolve(s, err)

AndThenOnReject(s, err) == Reject(s, err)

AndThenFork ==
    /\ scenario = "andThen"
    /\ constructed
    /\ ~started
    /\ started' = TRUE
    /\ Commit(Fork(St, 1, Cb("AndThenOnReject"), Cb("AndThenOnResolve")))
    /\ UNCHANGED <<config, constructed, second, ncancel>>

AndThenFirstSettles ==
    /\ scenario = "andThen"
    /\ leaf[1] = "pending"
    /\ \E ok \in BOOLEAN :
          Commit(Settle(St, 1, ok, Cb("AndThenOnReject"), Cb("AndThenOnResolve")))
    /\ UNCHANGED <<config, constructed, second, started, ncancel>>

AndThenSecondSettles ==
    /\ scenario = "andThen"
    /\ leaf[2] = "pending"
    /\ \E ok \in BOOLEAN : Commit(Settle(St, 2, ok, Cb("reject"), Cb("resolve")))
    /\ UNCHANGED <<config, constructed, second, started, ncancel>>

\* Mutant: the else branch is lost, the first stage is never cancelled.
AndThenCancelHandle_NoOuter(s) ==
    IF s.innerCancel = "set" THEN CancelLeaf(s, 2) ELSE s

\* Mutant: the handle of the first stage is returned as it is, with no redirection.
AndThenCancelHandle_OuterOnly(s) == CancelLeaf(s, 1)

\* The handle andThen returns: if (innerCancel) innerCancel() else outerCancel()
AndThenCancelHandle(s) ==
    IF s.innerCancel = "set" THEN CancelLeaf(s, 2) ELSE CancelLeaf(s, 1)

AndThenCancel ==
    /\ scenario = "andThen"
    /\ started
    /\ ncancel < CancelLimit
    /\ ncancel' = ncancel + 1
    /\ Commit(AndThenCancelHandle(CancelCall(St)))
    /\ UNCHANGED <<config, constructed, second, started>>

-----------------------------------------------------------------------------
\* t.orElse(f): leaf 1 is t, leaf 2 is the fallback Task f returns.

OrElseOnReject(s, x) ==
    LET s1 == Fork(Log(s, Ev("f", x)), 2, Cb("reject"), Cb("resolve"))
    IN  [s1 EXCEPT !.innerCancel = "set"]

\* Mutant: the success callback hands the value to f as well.
OrElseOnResolve_InvokesF(s, t) == OrElseOnReject(s, t)

OrElseOnResolve(s, t) == Resolve(s, t)

OrElseFork ==
    /\ scenario = "orElse"
    /\ constructed
    /\ ~started
    /\ started' = TRUE
    /\ Commit(Fork(St, 1, Cb("OrElseOnReject"), Cb("OrElseOnResolve")))
    /\ UNCHANGED <<config, constructed, second, ncancel>>

OrElseFirstSettles ==
    /\ scenario = "orElse"
    /\ leaf[1] = "pending"
    /\ \E ok \in BOOLEAN :
          Commit(Settle(St, 1, ok, Cb("OrElseOnReject"), Cb("OrElseOnResolve")))
    /\ UNCHANGED <<config, constructed, second, started, ncancel>>

OrElseSecondSettles ==
    /\ scenario = "orElse"
    /\ leaf[2] = "pending"
    /\ \E ok \in BOOLEAN : Commit(Settle(St, 2, ok, Cb("reject"), Cb("resolve")))
    /\ UNCHANGED <<config, constructed, second, started, ncancel>>

\* Mutant: the handle of the first stage is returned as it is, with no redirection.
OrElseCancelHandle_OuterOnly(s) == CancelLeaf(s, 1)

\* The handle orElse returns: if (innerCancel) innerCancel() else outerCancel()
OrElseCancelHandle(s) ==
    IF s.innerCancel = "set" THEN CancelLeaf(s, 2) ELSE CancelLeaf(s, 1)

OrElseCancel ==
    /\ scenario = "orElse"
    /\ started
    /\ ncancel < CancelLimit
    /\ ncancel' = ncancel + 1
    /\ Commit(OrElseCancelHandle(CancelCall(St)))
    /\ UNCHANGED <<config, constructed, second, started>>

-----------------------------------------------------------------------------
\* Building the Task under test: a constructor or combinator returns
\* new Task(computation), and the constructor stores the computation.

\* Mutant: the constructor runs the computation it is given, as a Promise
\* executor would.
TaskConstructor_Eager(s) ==
    IF length >= 1 THEN Fork(s, 1, Cb("reject"), Cb("resolve")) ELSE s

\* constructor(computation) { this.fn = computation }
TaskConstructor(s) == s

Construct ==
    /\ ~constructed
    /\ constructed' = TRUE
    /\ Commit(TaskConstructor(St))
    /\ UNCHANGED <<config, second, started, ncancel>>

-----------------------------------------------------------------------------
\* Task.succeed(t) and Task.fail(err): the Task under test has no leaf.

\* Mutant: succeed settles with a fixed value.
Succeed_Constant(s, t) == Resolve(s, 42)

\* resolve(t); return noop
Succeed(s, t) == Resolve(s, t)

\* reject(err); return noop
Fail(s, err) == Reject(s, err)

SucceedFork ==
    /\ scenario = "succeed"
    /\ constructed
    /\ ~started
    /\ started' = TRUE
    /\ Commit(Succeed(St, payload))
    /\ UNCHANGED <<config, constructed, second, ncancel>>

FailFork ==
    /\ scenario = "fail"
    /\ constructed
    /\ ~started
    /\ started' = TRUE
    /\ Commit(Fail(St, payload))
    /\ UNCHANGED <<config, constructed, second, ncancel>>

\* The handle succeed, fail and fromPromise return is noop.
NoopCancel ==
    /\ scenario \in {"succeed", "fail", "fromPromise"}
    /\ started
    /\ ncancel < CancelLimit
    /\ ncancel' = ncancel + 1
    /\ Commit(CancelCall(St))
    /\ UNCHANGED <<config, constructed, second, started>>

-----------------------------------------------------------------------------
\* Task.fromPromise(fn): leaf 1 is the promise fn returns.  t.andThenP(f):
\* leaf 1 is t, leaf 2 is the promise f returns.  A promise calls what then
\* registered in a later turn, once, and has no cancel handle.

\* promise.then(resolve, reject)
Then(s, i) == [s EXCEPT !.leaf[i] = "pending"]

\* fn().then(resolve, reject); return noop
FromPromise(s) == Then(Log(s, Ev("producer", 1)), 1)

FromPromiseFork ==
    /\ scenario = "fromPromise"
    /\ constructed
    /\ ~started
    /\ started' = TRUE
    /\ Commit(FromPromise(St))
    /\ UNCHANGED <<config, constructed, second, ncancel>>

FromPromiseSettles ==
    /\ scenario = "fromPromise"
    /\ leaf[1] = "pending"
    /\ \E ok \in BOOLEAN : Commit(Settle(St, 1, ok, Cb("reject"), Cb("resolve")))
    /\ UNCHANGED <<config, constructed, second, started, ncancel>>

\* (err) => reject(err)
AndThenPOnReject(s, err) == Reject(s, err)

\* Mutant: the promise is produced, and its outcome is dropped.
AndThenPOnResolve_NoThen(s, a) == Log(s, Ev("f", a))

\* (a) => f(a).then(resolve, reject)
AndThenPOnResolve(s, a) == Then(Log(s, Ev("f", a)), 2)

AndThenPFork ==
    /\ scenario = "andThenP"
    /\ constructed
    /\ ~started
    /\ started' = TRUE
    /\ Commit(Fork(St, 1, Cb("AndThenPOnReject"), Cb("AndThenPOnResolve")))
    /\ UNCHANGED <<config, constructed, second, ncancel>>

AndThenPFirstSettles ==
    /\ scenario = "andThenP"
    /\ leaf[1] = "pending"
    /\ \E ok \in BOOLEAN :
          Commit(Settle(St, 1, ok, Cb("AndThenPOnReject"), Cb("AndThenPOnResolve")))
    /\ UNCHANGED <<config, constructed, second, started, ncancel>>

AndThenPPromiseSettles ==
    /\ scenario = "andThenP"
    /\ leaf[2] = "pending"
    /\ \E ok \in BOOLEAN : Commit(Settle(St, 2, ok, Cb("reject"), Cb("resolve")))
    /\ UNCHANGED <<config, constructed, second, started, ncancel>>

\* andThenP returns the handle of this.fn as it is.
AndThenPCancel ==
    /\ scenario = "andThenP"
    /\ started
    /\ ncancel < CancelLimit
    /\ ncancel' = ncancel + 1
    /\ Commit(CancelLeaf(CancelCall(St), 1))
    /\ UNCHANGED <<config, constructed, second, started>>

-----------------------------------------------------------------------------
\* t.map(f) and t.do(fn), which is t.map(v => { fn(v); return v }): leaf 1 is t.

\* The function given to map.
MapF(v) == v - 12

\* Mutant: the error goes through f as well.
MapOnReject_Mapped(s, err) == Reject(Log(s, Ev("fn", err)), MapF(err))

\* (err) => reject(err)
MapOnReject(s, err) == Reject(s, err)

\* Mutant: resolve is called with the value before f has run.
MapOnResolve_ResolvesFirst(s, a) ==
    Log(Resolve(s, IF scenario = "do" THEN a ELSE MapF(a)), Ev("fn", a))

\* (a) => resolve(f(a))
MapOnResolve(s, a) ==
    Resolve(Log(s, Ev("fn", a)), IF scenario = "do" THEN a ELSE MapF(a))

MapFork ==
    /\ scenario \in {"map", "do"}
    /\ constructed
    /\ ~started
    /\ started' = TRUE
    /\ Commit(Fork(St, 1, Cb("MapOnReject"), Cb("MapOnResolve")))
    /\ UNCHANGED <<config, constructed, second, ncancel>>

MapSettles ==
    /\ scenario \in {"map", "do"}
    /\ leaf[1] = "pending"
    /\ \E ok \in BOOLEAN :
          Commit(Settle(St, 1, ok, Cb("MapOnReject"), Cb("MapOnResolve")))
    /\ UNCHANGED <<config, constructed, second, started, ncancel>>

\* Mutant: map returns a handle of its own that does nothing.
MapCancel_HandleDropped ==
    /\ scenario \in {"map", "do"}
    /\ started
    /\ ncancel < CancelLimit
    /\ ncancel' = ncancel + 1
    /\ Commit(CancelCall(St))
    /\ UNCHANGED <<config, constructed, second, started>>

\* map returns the handle of this.fn as it is.
MapCancel ==
    /\ scenario \in {"map", "do"}
    /\ started
    /\ ncancel < CancelLimit
    /\ ncancel' = ncancel + 1
    /\ Commit(CancelLeaf(CancelCall(St), 1))
    /\ UNCHANGED <<config, constructed, second, started>>

-----------------------------------------------------------------------------
\* t.mapError(f) and t.elseDo(fn), which is t.mapError(err => { fn(err);
\* return err }): leaf 1 is t.

\* The function given to mapError.
MapErrorF(err) == 10 * err

\* (e) => reject(f(e))
MapErrorOnReject(s, e) ==
    Reject(Log(s, Ev("fn", e)), IF scenario = "elseDo" THEN e ELSE MapErrorF(e))

\* (t) => resolve(t)
MapErrorOnResolve(s, t) == Resolve(s, t)

MapErrorFork ==
    /\ scenario \in {"mapError", "elseDo"}
    /\ constructed
    /\ ~started
    /\ started' = TRUE
    /\ Commit(Fork(St, 1, Cb("MapErrorOnReject"), Cb("MapErrorOnResolve")))
    /\ UNCHANGED <<config, constructed, second, ncancel>>

MapErrorSettles ==
    /\ scenario \in {"mapError", "elseDo"}
    /\ leaf[1] = "pending"
    /\ \E ok \in BOOLEAN :
          Commit(Settle(St, 1, ok, Cb("MapErrorOnReject"), Cb("MapErrorOnResolve")))
    /\ UNCHANGED <<config, constructed, second, started, ncancel>>

\* mapError returns the handle of this.fn as it is.
MapErrorCancel ==
    /\ scenario \in {"mapError", "elseDo"}
    /\ started
    /\ ncancel < CancelLimit
    /\ ncancel' = ncancel + 1
    /\ Commit(CancelLeaf(CancelCall(St), 1))
    /\ UNCHANGED <<config, constructed, second, started>>

-----------------------------------------------------------------------------
\* t.assign(k, other), which is t.andThen(t => task.map(a => ({...t, [k]: a}))):
\* leaf 1 is t, leaf 2 is other, or the Task other(t) returns in scenario
\* assignFn.  The object {...t, [k]: a} is the pair <<t, a>>.

\* Mutant: the object is built without ...Object(t).
AssignMapOnResolve_DropsRecord(s, t, a) == Log(s, [ev |-> "resolve", arg |-> <<a>>])

\* The function assign gives to map; t is the value it captured.
AssignMapOnResolve(s, t, a) == Log(s, [ev |-> "resolve", arg |-> <<t, a>>])

\* The function assign gives to andThen, inside andThen's success callback.
AssignOnResolve(s, t) ==
    LET s0 == Log(s, Ev("f", t))
        s1 == IF scenario = "assignFn" THEN Log(s0, Ev("other", t)) ELSE s0
        s2 == Fork(s1, 2, Cb("MapOnReject"), CbIdx("AssignMapOnResolve", t))
    IN  [s2 EXCEPT !.innerCancel = "set"]

AssignFork ==
    /\ scenario \in {"assign", "assignFn"}
    /\ constructed
    /\ ~started
    /\ started' = TRUE
    /\ Commit(Fork(St, 1, Cb("AndThenOnReject"), Cb("AssignOnResolve")))
    /\ UNCHANGED <<config, constructed, second, ncancel>>

AssignFirstSettles ==
    /\ scenario \in {"assign", "assignFn"}
    /\ leaf[1] = "pending"
    /\ \E ok \in BOOLEAN :
          Commit(Settle(St, 1, ok, Cb("AndThenOnReject"), Cb("AssignOnResolve")))
    /\ UNCHANGED <<config, constructed, second, started, ncancel>>

AssignSecondSettles ==
    /\ scenario \in {"assign", "assignFn"}
    /\ leaf[2] = "pending"
    /\ \E ok \in BOOLEAN :
          Commit(Settle(St, 2, ok, Cb("MapOnReject"),
                        CbIdx("AssignMapOnResolve", ValueOf(1))))
    /\ UNCHANGED <<config, constructed, second, started, ncancel>>

\* The handle is the one andThen returns.
AssignCancel ==
    /\ scenario \in {"assign", "assignFn"}
    /\ started
    /\ ncancel < CancelLimit
    /\ ncancel' = ncancel + 1
    /\ Commit(AndThenCancelHandle(CancelCall(St)))
    /\ UNCHANGED <<config, constructed, second, started>>

-----------------------------------------------------------------------------
\* Task.all(ts): leaf i is ts[i-1].

\* results as the array handed to resolve.
ResultsSeq(s) == [i \in 1..length |-> s.results[i]]

\* Mutant: results.push(result), the results are kept in completion order.
ResolveIdx_Push(s, idx, result) ==
    LET s1 == [s EXCEPT !.resolved = @ + 1,
                        !.results[s.resolved + 1] = result,
                        !.all_cancels[idx] = "noop"]
    IN  IF s1.resolved = length
        THEN Log(s1, [ev |-> "resolve", arg |-> ResultsSeq(s1)])
        ELSE s1

\* Mutant: completion is tested with results.length === length, which a
\* sparse array reaches as soon as its last index is written.
ResolveIdx_ByArrayLength(s, idx, result) ==
    LET s1 == [s EXCEPT !.resolved = @ + 1,
                        !.results[idx] = result,
                        !.all_cancels[idx] = "noop"]
    IN  IF s1.results[length] # 0
        THEN Log(s1, [ev |-> "resolve", arg |-> ResultsSeq(s1)])
        ELSE s1

ResolveIdx(s, idx, result) ==
    LET s1 == [s EXCEPT !.resolved = @ + 1,
                        !.results[idx] = result,
                        !.all_cancels[idx] = "noop"]
    IN  IF s1.resolved = length
        THEN Log(s1, [ev |-> "resolve", arg |-> ResultsSeq(s1)])
        ELSE s1

\* Mutant: a task is forked only while reject has not been called.
AllForkTask_UnlessRejected(s, index) ==
    IF \E k \in DOMAIN s.trace : s.trace[k].ev = "reject"
    THEN s
    ELSE LET s1 == Fork(s, index, Cb("reject"), CbIdx("resolveIdx", index))
         IN  [s1 EXCEPT !.all_cancels[index] = "handle"]

\* cancels[index] = task.fork(reject, resolveIdx(index))
AllForkTask(s, index) ==
    LET s1 == Fork(s, index, Cb("reject"), CbIdx("resolveIdx", index))
    IN  [s1 EXCEPT !.all_cancels[index] = "handle"]

RECURSIVE AllForEach(_, _)
AllForEach(s, index) ==
    IF index > length THEN s ELSE AllForEach(AllForkTask(s, index), index + 1)

\* Mutant: only the first entry of cancels is invoked.
AllCancelEntries_FirstOnly(s, index) ==
    IF s.all_cancels[index] = "handle" THEN CancelLeaf(s, index) ELSE s

\* Object.entries(cancels).forEach(([_, cancel]) => cancel())
RECURSIVE AllCancelEntries(_, _)
AllCancelEntries(s, index) ==
    IF index > length
    THEN s
    ELSE AllCancelEntries(IF s.all_cancels[index] = "handle"
                          THEN CancelLeaf(s, index)
                          ELSE s,
                          index + 1)

\* Mutant: the empty list is not told apart, and nothing ever resolves it.
AllFork_NoEmptyCase ==
    /\ scenario = "all"
    /\ constructed
    /\ ~started
    /\ started' = TRUE
    /\ Commit(AllForEach(St, 1))
    /\ UNCHANGED <<config, constructed, second, ncancel>>

AllFork ==
    /\ scenario = "all"
    /\ constructed
    /\ ~started
    /\ started' = TRUE
    /\ Commit(IF length = 0
              THEN Log(St, [ev |-> "resolve", arg |-> <<>>])
              ELSE AllForEach(St, 1))
    /\ UNCHANGED <<config, constructed, second, ncancel>>

AllTaskSettles ==
    /\ scenario = "all"
    /\ \E i \in 1..length :
          /\ leaf[i] = "pending"
          /\ \E ok \in BOOLEAN :
                Commit(Settle(St, i, ok, Cb("reject"), CbIdx("resolveIdx", i)))
    /\ UNCHANGED <<config, constructed, second, started, ncancel>>

AllCancel ==
    /\ scenario = "all"
    /\ started
    /\ ncancel < CancelLimit
    /\ ncancel' = ncancel + 1
    /\ Commit(IF length = 0
              THEN CancelCall(St)
              ELSE AllCancelEntries(CancelCall(St), 1))
    /\ UNCHANGED <<config, constructed, second, started>>

-----------------------------------------------------------------------------
\* Task.race(tasks): leaf i is tasks[i-1].

\* Mutant: the handles are invoked with forEach and stay in the list.
CancelAll_NoShift(s) ==
    LET RECURSIVE Each(_, _)
        Each(u, m) ==
            IF m > Len(s.race_cancels)
            THEN u
            ELSE Each(CancelLeaf(u, s.race_cancels[m]), m + 1)
    IN  Each(s, 1)

\* Mutant: if instead of while, only the first handle is shifted and invoked.
CancelAll_HeadOnly(s) ==
    IF s.race_cancels = <<>>
    THEN s
    ELSE CancelLeaf([s EXCEPT !.race_cancels = Tail(@)], Head(s.race_cancels))

\* while ((cancel = cancels.shift())) cancel();
RECURSIVE CancelAll(_)
CancelAll(s) ==
    IF s.race_cancels = <<>>
    THEN s
    ELSE CancelAll(CancelLeaf([s EXCEPT !.race_cancels = Tail(@)],
                              Head(s.race_cancels)))

CancelAllIfNotStillWaiting(s) ==
    IF s.status = "waiting" THEN s ELSE CancelAll(s)

\* Mutant: the switch on status is lost, every success is forwarded.
ResolveAndCancelAll_NoGuard(s, t) ==
    CancelAll(Resolve([s EXCEPT !.status = "resolved"], t))

ResolveAndCancelAll(s, t) ==
    IF s.status = "waiting"
    THEN CancelAll(Resolve([s EXCEPT !.status = "resolved"], t))
    ELSE s

\* Mutant: the switch on status is lost, every failure is forwarded.
RejectAndCancelAll_NoGuard(s, e) ==
    CancelAll(Reject([s EXCEPT !.status = "rejected"], e))

RejectAndCancelAll(s, e) ==
    IF s.status = "waiting"
    THEN CancelAll(Reject([s EXCEPT !.status = "rejected"], e))
    ELSE s

\* Mutant: the switch on status is lost, every task is forked.
ForkTaskIfStillWaiting_NoGuard(s, task) ==
    LET s1 == Fork(s, task, Cb("rejectAndCancelAll"), Cb("resolveAndCancelAll"))
    IN  [s1 EXCEPT !.race_cancels = Append(@, task)]

ForkTaskIfStillWaiting(s, task) ==
    IF s.status = "waiting"
    THEN LET s1 == Fork(s, task, Cb("rejectAndCancelAll"), Cb("resolveAndCancelAll"))
         IN  [s1 EXCEPT !.race_cancels = Append(@, task)]
    ELSE s

RECURSIVE RaceForEach(_, _)
RaceForEach(s, index) ==
    IF index > length
    THEN s
    ELSE RaceForEach(ForkTaskIfStillWaiting(s, index), index + 1)

\* Mutant: the race of no tasks succeeds with an empty result, as all does.
RaceFork_EmptySucceeds ==
    /\ scenario = "race"
    /\ constructed
    /\ ~started
    /\ started' = TRUE
    /\ Commit(IF length = 0
              THEN Log(St, [ev |-> "resolve", arg |-> <<>>])
              ELSE CancelAllIfNotStillWaiting(RaceForEach(St, 1)))
    /\ UNCHANGED <<config, constructed, second, ncancel>>

RaceFork ==
    /\ scenario = "race"
    /\ constructed
    /\ ~started
    /\ started' = TRUE
    /\ Commit(IF length = 0
              THEN St
              ELSE CancelAllIfNotStillWaiting(RaceForEach(St, 1)))
    /\ UNCHANGED <<config, constructed, second, ncancel>>

RaceTaskSettles ==
    /\ scenario = "race"
    /\ \E i \in 1..length :
          /\ leaf[i] = "pending"
          /\ \E ok \in BOOLEAN :
                Commit(Settle(St, i, ok, Cb("rejectAndCancelAll"),
                              Cb("resolveAndCancelAll")))
    /\ UNCHANGED <<config, constructed, second, started, ncancel>>

RaceCancel ==
    /\ scenario = "race"
    /\ started
    /\ ncancel < CancelLimit
    /\ ncancel' = ncancel + 1
    /\ Commit(IF length = 0 THEN CancelCall(St) ELSE CancelAll(CancelCall(St)))
    /\ UNCHANGED <<config, constructed, second, started>>

-----------------------------------------------------------------------------
\* Task.loop(interval, task): leaf k is the k-th fork of the wrapped task.

\* The attempts started so far.
Attempts(s) == Cardinality({k \in Leaves : s.leaf[k] # "unforked"})

\* Mutant: a failure of the wrapped task sets no timer.
LoopOnReject_NoRetry(s, err) == s

\* Mutant: a failure of the wrapped task is handed to the consumer.
LoopOnReject_GivesUp(s, err) ==
    IF s.isCancelled THEN s ELSE Reject(s, err)

\* timeout = setTimeout(loop, interval)
LoopOnReject(s, err) ==
    IF s.isCancelled
    THEN s
    ELSE Log([s EXCEPT !.timeout = "pending"], Ev("setTimeout", Attempts(s)))

\* Mutant: a success resolves the loop and still schedules the next attempt.
LoopOnResolve_KeepsLooping(s, result) ==
    IF s.isCancelled THEN s ELSE LoopOnReject(Resolve(s, result), result)

\* Mutant: the success callback does not look at isCancelled.
LoopOnResolve_NoCancelCheck(s, result) == Resolve(s, result)

LoopOnResolve(s, result) ==
    IF s.isCancelled THEN s ELSE Resolve(s, result)

\* Mutant: internalCancel keeps the handle of the first attempt.
LoopBody_FirstHandleKept(s) ==
    IF s.isCancelled
    THEN s
    ELSE LET k == Attempts(s) + 1
             s1 == Fork(s, k, Cb("LoopOnReject"), Cb("LoopOnResolve"))
         IN  IF s1.internalCancel = 0 THEN [s1 EXCEPT !.internalCancel = k] ELSE s1

\* Mutant: loop forks the wrapped task twice.
LoopBody_ForksTwice(s) ==
    IF s.isCancelled
    THEN s
    ELSE LET k == Attempts(s) + 1
             s1 == Fork(s, k, Cb("LoopOnReject"), Cb("LoopOnResolve"))
             s2 == IF k + 1 <= length /\ s1.leaf[k + 1] = "unforked"
                   THEN Fork(s1, k + 1, Cb("LoopOnReject"), Cb("LoopOnResolve"))
                   ELSE s1
         IN  [s2 EXCEPT !.internalCancel = k]

\* const loop = () => { ... }
LoopBody(s) ==
    IF s.isCancelled
    THEN s
    ELSE LET k == Attempts(s) + 1
             s1 == Fork(s, k, Cb("LoopOnReject"), Cb("LoopOnResolve"))
         IN  [s1 EXCEPT !.internalCancel = k]

\* Mutant: the pending timer is not cleared.
ClearTimeout_Forgotten(s) == s

\* clearTimeout(timeout)
ClearTimeout(s) ==
    IF s.timeout = "pending"
    THEN Log([s EXCEPT !.timeout = "cleared"], Ev("clearTimeout", Attempts(s)))
    ELSE s

LoopFork ==
    /\ scenario = "loop"
    /\ constructed
    /\ ~started
    /\ started' = TRUE
    /\ Commit(LoopBody(St))
    /\ UNCHANGED <<config, constructed, second, ncancel>>

\* The pending timer fires and runs loop.  The model stops after MaxAttempts.
LoopTimerFires ==
    /\ scenario = "loop"
    /\ timeout = "pending"
    /\ Attempts(St) < length
    /\ Commit(LoopBody(Log([St EXCEPT !.timeout = "fired"],
                           Ev("timerFired", Attempts(St)))))
    /\ UNCHANGED <<config, constructed, second, started, ncancel>>

LoopAttemptSettles ==
    /\ scenario = "loop"
    /\ \E k \in 1..length :
          /\ leaf[k] = "pending"
          /\ \E ok \in BOOLEAN :
                Commit(Settle(St, k, ok, Cb("LoopOnReject"), Cb("LoopOnResolve")))
    /\ UNCHANGED <<config, constructed, second, started, ncancel>>

LoopCancel ==
    /\ scenario = "loop"
    /\ started
    /\ ncancel < CancelLimit
    /\ ncancel' = ncancel + 1
    /\ LET s1 == ClearTimeout([CancelCall(St) EXCEPT !.isCancelled = TRUE])
       IN  Commit(IF s1.internalCancel # 0
                  THEN CancelLeaf(s1, s1.internalCancel)
                  ELSE s1)
    /\ UNCHANGED <<config, constructed, second, started>>

-----------------------------------------------------------------------------
\* Applying a callback closure to the value or error x.
Call(cb, s, x) ==
    CASE cb.fn = "resolve" -> Resolve(s, x)
      [] cb.fn = "reject" -> Reject(s, x)
      [] cb.fn = "AndThenPOnResolve" -> AndThenPOnResolve(s, x)
      [] cb.fn = "AndThenPOnReject" -> AndThenPOnReject(s, x)
      [] cb.fn = "MapOnResolve" -> MapOnResolve(s, x)
      [] cb.fn = "MapOnReject" -> MapOnReject(s, x)
      [] cb.fn = "MapErrorOnResolve" -> MapErrorOnResolve(s, x)
      [] cb.fn = "MapErrorOnReject" -> MapErrorOnReject(s, x)
      [] cb.fn = "AssignOnResolve" -> AssignOnResolve(s, x)
      [] cb.fn = "AssignMapOnResolve" -> AssignMapOnResolve(s, cb.idx, x)
      [] cb.fn = "AndThenOnResolve" -> AndThenOnResolve(s, x)
      [] cb.fn = "AndThenOnReject" -> AndThenOnReject(s, x)
      [] cb.fn = "OrElseOnResolve" -> OrElseOnResolve(s, x)
      [] cb.fn = "OrElseOnReject" -> OrElseOnReject(s, x)
      [] cb.fn = "resolveIdx" -> ResolveIdx(s, cb.idx, x)
      [] cb.fn = "resolveAndCancelAll" -> ResolveAndCancelAll(s, x)
      [] cb.fn = "rejectAndCancelAll" -> RejectAndCancelAll(s, x)
      [] cb.fn = "LoopOnResolve" -> LoopOnResolve(s, x)
      [] cb.fn = "LoopOnReject" -> LoopOnReject(s, x)

Init ==
    /\ executions = 1
    /\ constructed = FALSE
    /\ second = NewExecution
    /\ scenario \in Scenarios
    /\ payload \in Payloads
    /\ scenario \notin {"succeed", "fail"} => payload = 42
    /\ scenario \in {"succeed", "fail"} => length = 0
    /\ scenario = "fromPromise" => length = 1
    /\ scenario = "andThenP" => length = 2
    /\ length \in 0..MaxLeaves
    /\ scenario \in {"map", "do", "mapError", "elseDo"} => length = 1
    /\ scenario \in {"assign", "assignFn", "andThen", "orElse"} => length = 2
    /\ scenario \in {"all", "race"} => length <= NumTasks
    /\ scenario = "loop" => length = MaxAttempts
    /\ mode \in [Leaves -> Modes]
    /\ \A i \in Leaves : i > length => mode[i] = "syncOk"
    /\ scenario \in {"fromPromise", "andThenP"} => mode[length] = "asyncIgnore"
    /\ started = FALSE
    /\ ncancel = 0
    /\ leaf = [i \in Leaves |-> "unforked"]
    /\ trace = <<>>
    /\ innerCancel = "undefined"
    /\ resolved = 0
    /\ results = [i \in Leaves |-> 0]
    /\ all_cancels = [i \in Leaves |-> "absent"]
    /\ status = "waiting"
    /\ race_cancels = <<>>
    /\ timeout = "undefined"
    /\ internalCancel = 0
    /\ isCancelled = FALSE

Next ==
    \/ Construct
    \/ SucceedFork
    \/ FailFork
    \/ NoopCancel
    \/ FromPromiseFork
    \/ FromPromiseSettles
    \/ AndThenPFork
    \/ AndThenPFirstSettles
    \/ AndThenPPromiseSettles
    \/ AndThenPCancel
    \/ MapFork
    \/ MapSettles
    \/ MapCancel
    \/ MapErrorFork
    \/ MapErrorSettles
    \/ MapErrorCancel
    \/ AssignFork
    \/ AssignFirstSettles
    \/ AssignSecondSettles
    \/ AssignCancel
    \/ AndThenFork
    \/ AndThenFirstSettles
    \/ AndThenSecondSettles
    \/ AndThenCancel
    \/ OrElseFork
    \/ OrElseFirstSettles
    \/ OrElseSecondSettles
    \/ OrElseCancel
    \/ AllFork
    \/ AllTaskSettles
    \/ AllCancel
    \/ RaceFork
    \/ RaceTaskSettles
    \/ RaceCancel
    \/ LoopFork
    \/ LoopTimerFires
    \/ LoopAttemptSettles
    \/ LoopCancel

Spec == Init /\ [][Next]_vars

-----------------------------------------------------------------------------
\* Two executions of the same Task.  fork calls this.fn(reject, resolve) anew,
\* so each execution has the variables its computation function declares and
\* the leaf executions it started.  A turn of the event loop belongs to one
\* execution; the other one waits in second.

\* Mutant: the variables are declared outside the computation function, so
\* both executions read and write the same ones.
Resume_Hoisted(own, other) ==
    [own EXCEPT !.innerCancel = other.innerCancel,
                !.resolved = other.resolved,
                !.results = other.results,
                !.all_cancels = other.all_cancels,
                !.status = other.status,
                !.race_cancels = other.race_cancels,
                !.timeout = other.timeout,
                !.internalCancel = other.internalCancel,
                !.isCancelled = other.isCancelled]

\* The state a turn of an execution finds: what that execution left, whatever
\* the other execution did in between.
Resume(own, other) == own

\* The next turn belongs to the other execution.
Switch ==
    /\ constructed
    /\ second' = [st |-> St, started |-> started, ncancel |-> ncancel]
    /\ Commit(Resume(second.st, St))
    /\ started' = second.started
    /\ ncancel' = second.ncancel
    /\ UNCHANGED <<config, constructed>>

\* A Task over at most TwiceTasks leaves that the consumer forks twice.
InitTwice ==
    /\ executions = 2
    /\ constructed = FALSE
    /\ second = NewExecution
    /\ scenario \in Scenarios
    /\ payload \in Payloads
    /\ scenario \notin {"succeed", "fail"} => payload = 42
    /\ scenario \in {"succeed", "fail"} => length = 0
    /\ scenario = "fromPromise" => length = 1
    /\ scenario = "andThenP" => length = 2
    /\ length \in 0..TwiceTasks
    /\ scenario \in {"map", "do", "mapError", "elseDo"} => length = 1
    /\ scenario \in {"assign", "assignFn", "andThen", "orElse"} => length = 2
    /\ scenario = "loop" => length = TwiceTasks
    /\ mode \in [Leaves -> Modes]
    /\ \A i \in Leaves : i > length => mode[i] = "syncOk"
    /\ scenario \in {"fromPromise", "andThenP"} => mode[length] = "asyncIgnore"
    /\ started = NewExecution.started
    /\ ncancel = NewExecution.ncancel
    /\ leaf = NewExecution.st.leaf
    /\ trace = NewExecution.st.trace
    /\ innerCancel = NewExecution.st.innerCancel
    /\ resolved = NewExecution.st.resolved
    /\ results = NewExecution.st.results
    /\ all_cancels = NewExecution.st.all_cancels
    /\ status = NewExecution.st.status
    /\ race_cancels = NewExecution.st.race_cancels
    /\ timeout = NewExecution.st.timeout
    /\ internalCancel = NewExecution.st.internalCancel
    /\ isCancelled = NewExecution.st.isCancelled

NextTwice == Next \/ Switch

SpecTwice == InitTwice /\ [][NextTwice]_vars

-----------------------------------------------------------------------------
\* One execution of Task.loop under the scheduling of the event loop: a timer
\* that was set and is not cleared fires, and an attempt in flight settles.
InitLoop == Init /\ scenario = "loop"

NextLoop ==
    \/ Construct
    \/ LoopFork
    \/ LoopTimerFires
    \/ LoopAttemptSettles
    \/ LoopCancel

FairLoopSpec ==
    /\ InitLoop
    /\ [][NextLoop]_vars
    /\ WF_vars(LoopTimerFires)
    /\ WF_vars(LoopAttemptSettles)

-----------------------------------------------------------------------------
\* Reading the trace.

Idx == DOMAIN trace

Count(e, x) == Cardinality({k \in Idx : trace[k] = Ev(e, x)})

CountEv(e) == Cardinality({k \in Idx : trace[k].ev = e})

Before(e, x, k) == \E j \in 1..(k - 1) : trace[j] = Ev(e, x)

SettledBefore(i, k) == Before("ok", i, k) \/ Before("err", i, k)

\* The position of the first settlement of a leaf, 0 if there is none.
FirstSettle ==
    IF \E k \in Idx : trace[k].ev \in {"ok", "err"}
    THEN CHOOSE k \in Idx :
            /\ trace[k].ev \in {"ok", "err"}
            /\ \A j \in 1..(k - 1) : trace[j].ev \notin {"ok", "err"}
    ELSE 0

\* The position of the first failure of a leaf (there is one).
FirstSettleErr ==
    CHOOSE k \in Idx :
        /\ trace[k].ev = "err"
        /\ \A j \in 1..(k - 1) : trace[j].ev # "err"

\* The consumer's k-th event is a call of the composed cancel handle; the leaf
\* handles that call invoked are the "cancel" events that follow it directly.
RunEnd(k) ==
    CHOOSE j \in (k + 1)..(Len(trace) + 1) :
        /\ j = Len(trace) + 1 \/ trace[j].ev # "cancel"
        /\ \A m \in (k + 1)..(j - 1) : trace[m].ev = "cancel"

InvokedBy(k) == [m \in 1..(RunEnd(k) - k - 1) |-> trace[k + m].arg[1]]

CancelCalls == {k \in Idx : trace[k].ev = "cancelCall"}

Callbacks == {k \in Idx : trace[k].ev \in {"resolve", "reject"}}

-----------------------------------------------------------------------------
\* C1: in t.andThen(f), a call of the returned cancel handle made while the
\* first stage t has not settled invokes t's cancel handle exactly once (and no
\* other handle); if t honors cancellation, f is never invoked and neither
\* resolve nor reject of the composed Task is ever called.
C1_AndThenCancelsFirstStage ==
    scenario = "andThen" =>
        \A k \in CancelCalls :
            ~SettledBefore(1, k) =>
                /\ InvokedBy(k) = <<1>>
                /\ mode[1] = "asyncHonor" =>
                      /\ CountEv("f") = 0
                      /\ Callbacks = {}

\* C1 witness: the first stage was pending, honors cancellation, and the
\* consumer cancelled it.
C1_Witness ==
    /\ scenario = "andThen"
    /\ mode[1] = "asyncHonor"
    /\ leaf[1] = "stopped"
    /\ ncancel >= 1

\* C2: in t.andThen(f), once the second stage f(v) has been forked, a call of
\* the returned cancel handle invokes the second stage's handle and not the
\* first stage's, also when t succeeded synchronously inside fork.
C2_AndThenCancelsSecondStage ==
    scenario = "andThen" =>
        \A k \in CancelCalls :
            Before("fork", 2, k) => InvokedBy(k) = <<2>>

\* C2 witness: t succeeded synchronously, f(v) was pending and was cancelled.
C2_Witness ==
    /\ scenario = "andThen"
    /\ mode[1] = "syncOk"
    /\ mode[2] = "asyncHonor"
    /\ leaf[2] = "stopped"
    /\ Count("cancel", 1) = 0

\* C3: in t.orElse(f), a call of the cancel handle while t is still running
\* invokes t's handle; a call after t failed and the fallback f(e) was forked
\* invokes the fallback's handle and not t's.
C3_OrElseCancelsLiveStage ==
    scenario = "orElse" =>
        \A k \in CancelCalls :
            /\ ~SettledBefore(1, k) => InvokedBy(k) = <<1>>
            /\ (Before("err", 1, k) /\ Before("fork", 2, k)) => InvokedBy(k) = <<2>>

\* C3 witness: t failed in a later turn, the fallback was pending and was
\* cancelled.
C3_Witness ==
    /\ scenario = "orElse"
    /\ mode[1] \in {"asyncHonor", "asyncIgnore"}
    /\ leaf[1] = "rejected"
    /\ leaf[2] = "stopped"

\* C4: in one fork of all(tasks) in which two or more sub-tasks fail, reject
\* of the joined Task is called exactly once, with the error of the sub-task
\* that failed first.
C4_AllRejectsOnce ==
    (scenario = "all" /\ CountEv("err") >= 2) =>
        /\ CountEv("reject") = 1
        /\ Count("reject", ErrorOf(trace[FirstSettleErr].arg[1])) = 1

\* C5: in all(tasks), when the first sub-task fails, the joined Task rejects
\* with that error and the cancel handle of every other sub-task that was
\* forked and whose outcome is not yet recorded is invoked.
C5_AllFailFastCancelsSiblings ==
    (scenario = "all" /\ CountEv("err") >= 1) =>
        LET k == FirstSettleErr
            i == trace[k].arg[1]
        IN  /\ trace[k + 1] = Ev("reject", ErrorOf(i))
            /\ \A j \in (1..length) \ {i} :
                  (Before("fork", j, k) /\ ~SettledBefore(j, k)) =>
                      \E m \in (k + 1)..Len(trace) : trace[m] = Ev("cancel", j)

\* C6: in one fork of a non-empty race(tasks) the status is waiting exactly
\* until the first sub-task settles and is then resolved or rejected for good;
\* that first settlement, and no other, is forwarded to the race's callbacks,
\* so resolve and reject are called at most once in total.
C6_RaceForwardsFirstSettlement ==
    (scenario = "race" /\ length > 0) =>
        /\ status \in {"waiting", "resolved", "rejected"}
        /\ status = "waiting" <=> FirstSettle = 0
        /\ FirstSettle # 0 =>
              LET k == FirstSettle
                  i == trace[k].arg[1]
              IN  /\ trace[k].ev = "ok" =>
                        /\ status = "resolved"
                        /\ trace[k + 1] = Ev("resolve", ValueOf(i))
                  /\ trace[k].ev = "err" =>
                        /\ status = "rejected"
                        /\ trace[k + 1] = Ev("reject", ErrorOf(i))
                  /\ Callbacks = {k + 1}

\* C6 witness: two sub-tasks of a race have settled, one after the other.
C6_Witness ==
    /\ scenario = "race"
    /\ CountEv("ok") + CountEv("err") >= 2
    /\ Cardinality(Callbacks) = 1

\* C7: when a race has settled, the cancel handle of every other sub-task that
\* was forked and had not settled has been invoked, and whatever the sequence
\* of settlements and calls of the race's own cancel handle, the handle of a
\* forked sub-task is invoked at most once.
C7_RaceCancelsLosersOnce ==
    (scenario = "race" /\ length > 0) =>
        /\ \A j \in 1..length : Count("cancel", j) <= 1
        /\ FirstSettle # 0 =>
              \A j \in (1..length) \ {trace[FirstSettle].arg[1]} :
                  Before("fork", j, FirstSettle) => Count("cancel", j) = 1

\* C7 witness: a race with a pending loser settled, and the consumer invoked
\* the race's cancel handle as well.
C7_Witness ==
    /\ scenario = "race"
    /\ status # "waiting"
    /\ ncancel >= 1
    /\ \E j \in 1..length :
          /\ j # trace[FirstSettle].arg[1]
          /\ mode[j] \in {"asyncHonor", "asyncIgnore"}
          /\ Count("cancel", j) = 1

\* The forks of the leaves, in the order they happened.
ForkOrder == SelectSeq(trace, LAMBDA e : e.ev = "fork")

\* C8: forking a non-empty race(tasks) forks every task of the list exactly
\* once, in list order, also when an earlier task settles synchronously.
C8_RaceForksEveryTask ==
    (scenario = "race" /\ length > 0 /\ started) =>
        ForkOrder = [i \in 1..length |-> Ev("fork", i)]

\* C9: for race([a, b]) where a succeeds synchronously with v and b is a
\* pending task, the race resolves with v and b's cancel handle is invoked.
C9_RaceSyncWinnerCancelsPending ==
    (/\ scenario = "race"
     /\ length = 2
     /\ mode[1] = "syncOk"
     /\ mode[2] \in {"asyncHonor", "asyncIgnore"}
     /\ started) =>
        /\ Count("resolve", ValueOf(1)) = 1
        /\ Count("cancel", 2) >= 1

\* C10: an uncancelled loop whose wrapped task fails on its first k attempts
\* and succeeds on attempt k+1 has forked k+1 attempts, scheduled k timers (one
\* after each failure), resolved exactly once, with the value of attempt k+1,
\* and does nothing after that success.
C10_LoopRetriesUntilSuccess ==
    (scenario = "loop" /\ ncancel = 0) =>
        /\ CountEv("setTimeout") = CountEv("err")
        /\ CountEv("reject") = 0
        /\ CountEv("ok") = 0 => CountEv("resolve") = 0
        /\ CountEv("ok") >= 1 =>
              /\ CountEv("ok") = 1
              /\ CountEv("fork") = CountEv("err") + 1
              /\ CountEv("resolve") = 1
              /\ trace[Len(trace)] = Ev("resolve", ValueOf(CountEv("err") + 1))
              /\ timeout # "pending"

\* C10 witness: the wrapped task failed twice and succeeded on the third
\* attempt, and the loop was not cancelled.
C10_Witness ==
    /\ scenario = "loop"
    /\ ncancel = 0
    /\ CountEv("err") = 2
    /\ CountEv("resolve") = 1

\* The loop's retry timer is pending just before position k of the trace.
TimerPendingAt(k) ==
    \E j \in 1..(k - 1) :
        /\ trace[j].ev = "setTimeout"
        /\ \A m \in (j + 1)..(k - 1) : trace[m].ev \notin {"timerFired", "clearTimeout"}

\* Leaf i has been forked and has not settled just before position k.
InFlightAt(i, k) == Before("fork", i, k) /\ ~SettledBefore(i, k)

After(k) == (k + 1)..Len(trace)

\* C11: when loop's cancel handle is invoked while a retry timer is pending,
\* that timer is cleared: it never fires and no further attempt of the wrapped
\* task is forked.
C11_LoopCancelWhileIdle ==
    scenario = "loop" =>
        \A k \in CancelCalls :
            TimerPendingAt(k) =>
                /\ trace[k + 1].ev = "clearTimeout"
                /\ timeout # "pending"
                /\ \A m \in After(k) : trace[m].ev \notin {"timerFired", "fork"}

\* C11 witness: the loop was cancelled between two attempts, after the second
\* failure.
C11_Witness ==
    /\ scenario = "loop"
    /\ timeout = "cleared"
    /\ CountEv("err") = 2
    /\ CountEv("fork") = 2

\* C12: when loop's cancel handle is invoked while an attempt of the wrapped
\* task is in flight, the cancel handle of that attempt, and of no earlier
\* attempt, is invoked.
C12_LoopCancelsCurrentAttempt ==
    scenario = "loop" =>
        \A k \in CancelCalls :
            \A i \in 1..length :
                InFlightAt(i, k) => InvokedBy(k) = <<i>>

\* C12 witness: the second attempt was in flight when the loop was cancelled.
C12_Witness ==
    /\ scenario = "loop"
    /\ leaf[1] = "rejected"
    /\ leaf[2] = "stopped"

\* C13: after loop's cancel handle has been invoked, no attempt is forked, no
\* timer is scheduled and resolve is not called, also when the attempt in
\* flight ignores the cancellation and settles later.
C13_LoopInertAfterCancel ==
    scenario = "loop" =>
        \A k \in CancelCalls :
            \A m \in After(k) : trace[m].ev \notin {"fork", "setTimeout", "resolve", "reject"}

\* C13 witness: an attempt that ignores cancellation succeeded after the loop
\* was cancelled.
C13_Witness ==
    /\ scenario = "loop"
    /\ \E k \in CancelCalls : \E m \in After(k) : trace[m].ev = "ok"

\* The number of events e among the first k events of the trace.
CountUpTo(e, k) == Cardinality({j \in 1..k : trace[j].ev = e})

\* No leaf of the Task under test ignores its cancel handle.
AllLeavesHonor == \A i \in 1..length : mode[i] # "asyncIgnore"

\* C14: when all(tasks) resolves, the i-th element of the sequence it resolves
\* with is the success value of the i-th task, whatever the order in which the
\* sub-tasks completed.
C14_AllKeepsIndexOrder ==
    scenario = "all" =>
        \A k \in Idx :
            trace[k].ev = "resolve" =>
                trace[k].arg = [i \in 1..length |-> ValueOf(i)]

\* C14 witness: all resolved although a later task of the list succeeded
\* before an earlier one.
C14_Witness ==
    /\ scenario = "all"
    /\ CountEv("resolve") = 1
    /\ \E j, k \in Idx :
          /\ j < k
          /\ trace[j] = Ev("ok", 2)
          /\ trace[k] = Ev("ok", 1)

\* C15: in one fork of a non-empty all(tasks) of N sub-tasks, resolve is
\* called exactly once, right when the N-th success is recorded, and is not
\* called when some sub-task has failed, so resolve and reject are never both
\* called.
C15_AllResolvesOnceAtLastSuccess ==
    (scenario = "all" /\ length > 0) =>
        /\ CountEv("resolve") = (IF CountEv("ok") = length THEN 1 ELSE 0)
        /\ \A k \in Idx :
              trace[k].ev = "resolve" =>
                  /\ trace[k - 1].ev = "ok"
                  /\ CountUpTo("ok", k) = length
        /\ CountEv("err") >= 1 => CountEv("resolve") = 0
        /\ CountEv("resolve") = 0 \/ CountEv("reject") = 0

\* C15 witness: all resolved after its last sub-task succeeded in a later turn.
C15_Witness ==
    /\ scenario = "all"
    /\ length >= 2
    /\ mode[length] \in {"asyncHonor", "asyncIgnore"}
    /\ mode[1] \in {"asyncHonor", "asyncIgnore"}
    /\ CountEv("resolve") = 1

\* C16: invoking the cancel handle of a forked all(tasks) before it has
\* settled invokes the cancel handle of every sub-task that is outstanding;
\* if every leaf honors cancellation, the joined Task then never calls resolve
\* or reject.
C16_AllCancelCancelsOutstanding ==
    scenario = "all" =>
        \A k \in CancelCalls :
            (\A c \in Callbacks : c > k) =>
                /\ \A j \in 1..length :
                      InFlightAt(j, k) =>
                          \E m \in 1..Len(InvokedBy(k)) : InvokedBy(k)[m] = j
                /\ AllLeavesHonor => Callbacks = {}

\* C16 witness: two pending sub-tasks of an unsettled all were stopped by its
\* cancel handle.
C16_Witness ==
    /\ scenario = "all"
    /\ Callbacks = {}
    /\ Cardinality({j \in 1..length : leaf[j] = "stopped"}) >= 2

\* C17: the first call of the cancel handle of a forked race(tasks), made
\* before any sub-task has settled, invokes the cancel handle of every forked
\* sub-task; if every leaf honors cancellation, the race then never calls
\* resolve or reject.
C17_RaceCancelCancelsAll ==
    (scenario = "race" /\ length > 0) =>
        \A k \in CancelCalls :
            (trace[k] = Ev("cancelCall", 1) /\ (FirstSettle = 0 \/ FirstSettle > k)) =>
                /\ InvokedBy(k) = [j \in 1..length |-> j]
                /\ AllLeavesHonor => Callbacks = {}

\* C17 witness: two pending sub-tasks of a race were stopped by its cancel
\* handle.
C17_Witness ==
    /\ scenario = "race"
    /\ status = "waiting"
    /\ Cardinality({j \in 1..length : leaf[j] = "stopped"}) >= 2

\* C18: in one fork of a Task built with map, mapError, do, elseDo, andThen,
\* orElse, assign, race or loop from leaves that each settle at most once, the
\* consumer's resolve and reject are called at most once in total.
C18_SettlesAtMostOnce ==
    scenario \in {"map", "mapError", "do", "elseDo", "andThen", "orElse",
                  "assign", "assignFn", "race", "loop"} =>
        Cardinality(Callbacks) <= 1

\* C18 witness: a race has settled, and a sub-task whose cancel handle did
\* nothing failed afterwards.
C18_Witness ==
    /\ scenario = "race"
    /\ Cardinality(Callbacks) = 1
    /\ \E c \in Callbacks : \E m \in After(c) : trace[m].ev = "err"

\* C19: if every leaf honors cancellation, then once the cancel handle of a
\* Task built with map, mapError, andThen, orElse, all, race or loop has been
\* invoked before the Task settled, the consumer's resolve and reject are
\* never called and the function given to andThen / orElse is never started.
C19_CancelBeforeSettlementIsFinal ==
    (/\ scenario \in {"map", "mapError", "andThen", "orElse", "all", "race", "loop"}
     /\ AllLeavesHonor) =>
        \A k \in CancelCalls :
            (\A c \in Callbacks : c > k) =>
                \A m \in After(k) : trace[m].ev \notin {"resolve", "reject", "f"}

\* C19 witness: a mapped Task was cancelled while its leaf was pending, and the
\* leaf stopped.
C19_Witness ==
    /\ scenario = "map"
    /\ ncancel >= 1
    /\ leaf[1] = "stopped"

\* C20: after a Task built with andThen, orElse, all, race or loop has settled,
\* invoking its cancel handle calls neither resolve nor reject again and
\* invokes no cancel handle of a sub-task.
C20_CancelAfterSettlementIsNoop ==
    scenario \in {"andThen", "orElse", "all", "race", "loop"} =>
        \A k \in CancelCalls :
            (\E c \in Callbacks : c < k) =>
                /\ InvokedBy(k) = <<>>
                /\ \A m \in After(k) : trace[m].ev \notin {"resolve", "reject"}

\* C21: invoking the cancel handle of a Task built with andThen, orElse, all,
\* race or loop a second time invokes no cancel handle of a sub-task again,
\* and calls neither resolve nor reject.
C21_SecondCancelDoesNothing ==
    scenario \in {"andThen", "orElse", "all", "race", "loop"} =>
        \A k \in CancelCalls :
            trace[k].arg[1] >= 2 =>
                /\ InvokedBy(k) = <<>>
                /\ RunEnd(k) <= Len(trace) =>
                      trace[RunEnd(k)].ev \notin {"resolve", "reject"}

\* C22: building a Task with succeed, fail, fromPromise, map, mapError,
\* andThen, orElse, assign, do, elseDo, all, race or loop invokes no leaf
\* computation and no function the user gave: until the consumer calls fork,
\* nothing has been called.
C22_ConstructionIsLazy == ~started => trace = <<>>

\* C22 witness: a Task over a leaf that settles synchronously has been built
\* and not forked.
C22_Witness ==
    /\ constructed
    /\ ~started
    /\ length >= 1
    /\ mode[1] \in {"syncOk", "syncErr"}
    /\ leaf[1] = "unforked"

\* Reading the trace tr of one execution.
CountIn(tr, e) == Cardinality({k \in DOMAIN tr : tr[k].ev = e})

CountOf(tr, e, x) == Cardinality({k \in DOMAIN tr : tr[k] = Ev(e, x)})

\* The execution whose turn it is, in the shape of second.
Running == [st |-> St, started |-> started, ncancel |-> ncancel]

\* What the execution x has done follows from what happened in x alone: each
\* leaf was invoked at most once, and only after x was started; a leaf handle
\* was invoked only for a leaf x forked, after x's own cancel handle was
\* invoked or x settled; and x's callbacks and later stages follow from the
\* settlements of x's own leaves.
OwnOutcome(x) ==
    LET tr == x.st.trace
        callbacks == CountIn(tr, "resolve") + CountIn(tr, "reject")
        second_stage == CountOf(tr, "ok", 2) + CountOf(tr, "err", 2)
    IN  /\ ~x.started => tr = <<>>
        /\ \A i \in Leaves : CountOf(tr, "fork", i) <= 1
        /\ \A k \in DOMAIN tr :
              tr[k].ev = "cancel" =>
                  /\ \E j \in 1..(k - 1) : tr[j] = Ev("fork", tr[k].arg[1])
                  /\ \E j \in 1..(k - 1) :
                        tr[j].ev \in {"cancelCall", "resolve", "reject"}
        /\ (scenario = "all" /\ x.started) =>
              CountIn(tr, "resolve") = (IF CountIn(tr, "ok") = length THEN 1 ELSE 0)
        /\ scenario = "race" =>
              callbacks = (IF CountIn(tr, "ok") + CountIn(tr, "err") >= 1 THEN 1 ELSE 0)
        /\ scenario \in {"map", "do", "mapError", "elseDo"} =>
              callbacks = CountOf(tr, "ok", 1) + CountOf(tr, "err", 1)
        /\ scenario \in {"andThen", "assign", "assignFn"} =>
              /\ CountIn(tr, "f") = CountOf(tr, "ok", 1)
              /\ callbacks = CountOf(tr, "err", 1) + second_stage
        /\ scenario = "orElse" =>
              /\ CountIn(tr, "f") = CountOf(tr, "err", 1)
              /\ callbacks = CountOf(tr, "ok", 1) + second_stage
        /\ (scenario = "loop" /\ CountIn(tr, "cancelCall") = 0) =>
              /\ CountIn(tr, "resolve") = CountIn(tr, "ok")
              /\ CountIn(tr, "setTimeout") = CountIn(tr, "err")

\* A turn of one execution leaves the other execution as it was, and an
\* execution whose turn comes finds its state as it left it.
TurnKeepsOther ==
    \/ second' = second
    \/ /\ second' = Running
       /\ Running' = second

\* C23: two executions of the same Task (whatever built it) are
\* independent: each invokes every leaf computation at most once and has its
\* own counter, tables, status, slots, flag and timer, so that settling or
\* cancelling one execution changes neither the outcome of the other nor
\* cancels it.  Every execution waits in second after each of its turns.
C23_ExecutionsAreIndependent ==
    /\ []OwnOutcome(second)
    /\ [][TurnKeepsOther]_vars

\* C23 witness: of two executions of one all, one has resolved and the other
\* was cancelled while its two sub-tasks were pending, and never settled.
C23_Witness ==
    /\ scenario = "all"
    /\ length = 2
    /\ CountEv("resolve") = 1
    /\ second.started
    /\ second.st.leaf[1] = "stopped"
    /\ second.st.leaf[2] = "stopped"
    /\ CountIn(second.st.trace, "resolve") + CountIn(second.st.trace, "reject") = 0

\* The k-th event of the trace, if there is one.
At(k) == IF k \in Idx THEN trace[k] ELSE Ev("none", 0)

\* C24: in t.andThen(f), when t succeeds with v, f is invoked once, with v,
\* and the Task f(v) is forked; the success or failure of f(v) is handed to
\* the consumer as it is.  When t fails with e, the consumer's reject gets e
\* and f is not invoked.
C24_AndThenChains ==
    scenario = "andThen" =>
        /\ CountEv("f") = Count("ok", 1)
        /\ \A k \in Idx :
              /\ trace[k] = Ev("ok", 1) =>
                    /\ At(k + 1) = Ev("f", ValueOf(1))
                    /\ At(k + 2) = Ev("fork", 2)
              /\ trace[k] = Ev("err", 1) => At(k + 1) = Ev("reject", ErrorOf(1))
              /\ trace[k] = Ev("ok", 2) => At(k + 1) = Ev("resolve", ValueOf(2))
              /\ trace[k] = Ev("err", 2) => At(k + 1) = Ev("reject", ErrorOf(2))
        /\ Cardinality(Callbacks) = Count("err", 1) + Count("ok", 2) + Count("err", 2)

\* C24 witness: t succeeded in a later turn, and the Task f returned failed.
C24_Witness ==
    /\ scenario = "andThen"
    /\ mode[1] \in {"asyncHonor", "asyncIgnore"}
    /\ leaf[1] = "resolved"
    /\ leaf[2] = "rejected"
    /\ Count("reject", ErrorOf(2)) = 1

\* C25: in t.orElse(f), when t fails with e, f is invoked once, with e, and
\* the Task f(e) is forked; the success or failure of f(e) is handed to the
\* consumer as it is.  When t succeeds with v, the consumer's resolve gets v
\* and f is not invoked.
C25_OrElseRecovers ==
    scenario = "orElse" =>
        /\ CountEv("f") = Count("err", 1)
        /\ \A k \in Idx :
              /\ trace[k] = Ev("err", 1) =>
                    /\ At(k + 1) = Ev("f", ErrorOf(1))
                    /\ At(k + 2) = Ev("fork", 2)
              /\ trace[k] = Ev("ok", 1) => At(k + 1) = Ev("resolve", ValueOf(1))
              /\ trace[k] = Ev("ok", 2) => At(k + 1) = Ev("resolve", ValueOf(2))
              /\ trace[k] = Ev("err", 2) => At(k + 1) = Ev("reject", ErrorOf(2))
        /\ Cardinality(Callbacks) = Count("ok", 1) + Count("ok", 2) + Count("err", 2)

\* C25 witness: t failed in a later turn, and the fallback Task succeeded.
C25_Witness ==
    /\ scenario = "orElse"
    /\ mode[1] \in {"asyncHonor", "asyncIgnore"}
    /\ leaf[1] = "rejected"
    /\ leaf[2] = "resolved"
    /\ Count("resolve", ValueOf(2)) = 1

\* C26: t.map(f) resolves with f(v) when t succeeds with v, and rejects with
\* the error of t, without invoking f, when t fails; t.mapError(g) rejects
\* with g(e) when t fails with e, and resolves with the value of t, without
\* invoking g, when t succeeds.
C26_MapAndMapError ==
    /\ scenario = "map" =>
          /\ CountEv("fn") = Count("ok", 1)
          /\ \A k \in Idx :
                /\ trace[k] = Ev("ok", 1) =>
                      /\ At(k + 1) = Ev("fn", ValueOf(1))
                      /\ At(k + 2) = Ev("resolve", MapF(ValueOf(1)))
                /\ trace[k] = Ev("err", 1) => At(k + 1) = Ev("reject", ErrorOf(1))
    /\ scenario = "mapError" =>
          /\ CountEv("fn") = Count("err", 1)
          /\ \A k \in Idx :
                /\ trace[k] = Ev("err", 1) =>
                      /\ At(k + 1) = Ev("fn", ErrorOf(1))
                      /\ At(k + 2) = Ev("reject", MapErrorF(ErrorOf(1)))
                /\ trace[k] = Ev("ok", 1) => At(k + 1) = Ev("resolve", ValueOf(1))

\* C26 witness: a mapped Task whose leaf failed in a later turn has rejected
\* with the leaf's error.
C26_Witness ==
    /\ scenario = "map"
    /\ mode[1] \in {"asyncHonor", "asyncIgnore"}
    /\ leaf[1] = "rejected"
    /\ Count("reject", ErrorOf(1)) = 1

\* C27: t.assign(k, other) resolves with the record of t extended by the
\* value of the assigned Task when both succeed, and rejects with the error of
\* whichever failed; when t (an earlier assign of a chain) has failed, other
\* is neither called nor forked.
C27_AssignExtendsRecord ==
    scenario \in {"assign", "assignFn"} =>
        /\ CountEv("other") = (IF scenario = "assignFn" THEN Count("ok", 1) ELSE 0)
        /\ Count("fork", 2) = Count("ok", 1)
        /\ \A k \in Idx :
              /\ trace[k] = Ev("ok", 1) =>
                    /\ At(k + 1) = Ev("f", ValueOf(1))
                    /\ scenario = "assignFn" => At(k + 2) = Ev("other", ValueOf(1))
              /\ trace[k] = Ev("err", 1) => At(k + 1) = Ev("reject", ErrorOf(1))
              /\ trace[k] = Ev("ok", 2) =>
                    At(k + 1) = [ev |-> "resolve", arg |-> <<ValueOf(1), ValueOf(2)>>]
              /\ trace[k] = Ev("err", 2) => At(k + 1) = Ev("reject", ErrorOf(2))
        /\ Cardinality(Callbacks) = Count("err", 1) + Count("ok", 2) + Count("err", 2)

\* C27 witness: an assign whose other is a function has resolved with the
\* extended record.
C27_Witness ==
    /\ scenario = "assignFn"
    /\ CountEv("other") = 1
    /\ CountEv("resolve") = 1
    /\ leaf[2] = "resolved"

\* C28: t.do(fn) invokes fn once, with the value, and only when t succeeds;
\* t.elseDo(fn) invokes fn once, with the error, and only when t fails; the
\* composed Task settles with the value or error of t itself, after fn has
\* run.
C28_DoAndElseDo ==
    /\ scenario = "do" =>
          /\ CountEv("fn") = Count("ok", 1)
          /\ \A k \in Idx :
                /\ trace[k] = Ev("ok", 1) =>
                      /\ At(k + 1) = Ev("fn", ValueOf(1))
                      /\ At(k + 2) = Ev("resolve", ValueOf(1))
                /\ trace[k] = Ev("err", 1) => At(k + 1) = Ev("reject", ErrorOf(1))
    /\ scenario = "elseDo" =>
          /\ CountEv("fn") = Count("err", 1)
          /\ \A k \in Idx :
                /\ trace[k] = Ev("err", 1) =>
                      /\ At(k + 1) = Ev("fn", ErrorOf(1))
                      /\ At(k + 2) = Ev("reject", ErrorOf(1))
                /\ trace[k] = Ev("ok", 1) => At(k + 1) = Ev("resolve", ValueOf(1))

\* C28 witness: a do over a leaf that succeeded in a later turn has run fn.
C28_Witness ==
    /\ scenario = "do"
    /\ mode[1] \in {"asyncHonor", "asyncIgnore"}
    /\ CountEv("fn") = 1
    /\ Count("resolve", ValueOf(1)) = 1

\* C29: forking all([]) calls resolve with the empty sequence before fork
\* returns; reject is never called and no task is forked.
C29_AllOfNothingResolves ==
    (scenario = "all" /\ length = 0 /\ started) =>
        /\ At(1) = [ev |-> "resolve", arg |-> <<>>]
        /\ CountEv("resolve") = 1
        /\ CountEv("reject") = 0
        /\ CountEv("fork") = 0

\* C29 witness: all([]) has been forked.
C29_Witness ==
    /\ scenario = "all"
    /\ length = 0
    /\ started
    /\ ncancel = 0

\* C30: a forked race([]) never calls resolve or reject, and invoking its
\* cancel handle, any number of times, does nothing.
C30_RaceOfNothingIsInert ==
    (scenario = "race" /\ length = 0) =>
        \A k \in Idx : trace[k].ev = "cancelCall"

\* C30 witness: the cancel handle of a forked race([]) has been invoked twice.
C30_Witness ==
    /\ scenario = "race"
    /\ length = 0
    /\ started
    /\ ncancel >= 2

\* C31: forking succeed(v) calls resolve(v) once, before fork returns, and
\* never reject; forking fail(e) calls reject(e) once, before fork returns,
\* and never resolve; invoking the returned cancel handle does nothing.
C31_SucceedAndFail ==
    scenario \in {"succeed", "fail"} =>
        /\ ~started => trace = <<>>
        /\ started =>
              At(1) = Ev(IF scenario = "succeed" THEN "resolve" ELSE "reject", payload)
        /\ \A k \in Idx : k > 1 => trace[k].ev = "cancelCall"

\* C31 witness: succeed(8) has been forked and its cancel handle invoked.
C31_Witness ==
    /\ scenario = "succeed"
    /\ payload = 8
    /\ ncancel >= 1

\* C32: fromPromise(fn) calls fn when the Task is forked, and t.andThenP(f)
\* calls f when t has succeeded, and not when t failed; the fulfilment or
\* rejection of the promise is handed to resolve or reject; and once the
\* promise exists, invoking the cancel handle does not keep its outcome from
\* the callbacks: the promise stays pending until it settles.
C32_PromiseAdapters ==
    /\ scenario = "fromPromise" =>
          /\ ~started => trace = <<>>
          /\ started => At(1) = Ev("producer", 1)
          /\ CountEv("producer") <= 1
          /\ \A k \in CancelCalls : InvokedBy(k) = <<>>
          /\ (started /\ Count("ok", 1) + Count("err", 1) = 0) => leaf[1] = "pending"
          /\ \A k \in Idx :
                /\ trace[k] = Ev("ok", 1) => At(k + 1) = Ev("resolve", ValueOf(1))
                /\ trace[k] = Ev("err", 1) => At(k + 1) = Ev("reject", ErrorOf(1))
    /\ scenario = "andThenP" =>
          /\ CountEv("f") = Count("ok", 1)
          /\ (CountEv("f") = 1 /\ Count("ok", 2) + Count("err", 2) = 0) =>
                leaf[2] = "pending"
          /\ \A k \in Idx :
                /\ trace[k] = Ev("ok", 1) => At(k + 1) = Ev("f", ValueOf(1))
                /\ trace[k] = Ev("err", 1) => At(k + 1) = Ev("reject", ErrorOf(1))
                /\ trace[k] = Ev("ok", 2) => At(k + 1) = Ev("resolve", ValueOf(2))
                /\ trace[k] = Ev("err", 2) => At(k + 1) = Ev("reject", ErrorOf(2))
          /\ Cardinality(Callbacks) = Count("err", 1) + Count("ok", 2) + Count("err", 2)

\* C32 witness: the cancel handle of an andThenP was invoked after f had
\* produced its promise, and the promise's value reached resolve afterwards.
C32_Witness ==
    /\ scenario = "andThenP"
    /\ \E k \in CancelCalls :
          /\ Before("f", ValueOf(1), k)
          /\ \E m \in After(k) : trace[m] = Ev("resolve", ValueOf(2))

C34_RaceCancelsLosersFirst ==
    scenario = "race" =>
        \A c \in Callbacks :
            \A j \in 1..length : InFlightAt(j, c) => Before("cancel", j, c)

\* C35: all never invokes the cancel handle of a sub-task that has already
\* settled, by success or by failure, during its fork or later.
C35_AllSparesSettledSubTasks ==
    scenario = "all" =>
        \A k \in Idx :
            trace[k].ev = "cancel" => ~SettledBefore(trace[k].arg[1], k)

\* C36: forking a non-empty all(tasks) forks every sub-task exactly once, in
\* index order, before fork returns, whatever the earlier sub-tasks did during
\* their own fork.
C36_AllForksEveryTask ==
    (scenario = "all" /\ length > 0 /\ started) =>
        ForkOrder = [i \in 1..length |-> Ev("fork", i)]

\* C36 witness: the first task of an all of three failed during its fork, and
\* the last one is pending.
C36_Witness ==
    /\ scenario = "all"
    /\ length = 3
    /\ mode[1] = "syncErr"
    /\ leaf[3] = "pending"

\* C37: after the cancel handle of a race, all, andThen or orElse has been
\* invoked before the Task settled, resolve and reject are never called and
\* no further stage is started, also when a sub-task ignores its cancel handle
\* and settles later.
C37_CancelSilencesIgnoringSubTasks ==
    scenario \in {"race", "all", "andThen", "orElse"} =>
        \A k \in CancelCalls :
            (\A c \in Callbacks : c > k) =>
                \A m \in After(k) : trace[m].ev \notin {"resolve", "reject", "f"}

\* C38: liveness of loop.  While the loop is not cancelled, every failure of
\* an attempt has set one timer and nothing else calls resolve than a success;
\* when timers fire and attempts settle, the failure of attempt k leads to the
\* fork of attempt k+1, and a started loop ends up resolved by the attempt
\* that succeeded, or with every one of its MaxAttempts attempts failed, not
\* settled and the timer of the next attempt set.
C38_LoopLiveness ==
    /\ [](ncancel = 0 =>
            /\ CountEv("setTimeout") = CountEv("err")
            /\ CountEv("resolve") = CountEv("ok")
            /\ CountEv("reject") = 0)
    /\ \A k \in 1..(MaxAttempts - 1) :
          (Count("err", k) = 1) ~> (ncancel > 0 \/ Count("fork", k + 1) = 1)
    /\ started ~>
          \/ ncancel > 0
          \/ CountEv("resolve") = 1
          \/ /\ CountEv("err") = length
             /\ CountEv("resolve") = 0
             /\ timeout = "pending"

\* C38 witness: the loop was never cancelled, its first two attempts failed
\* and the third one resolved it.
C38_Witness ==
    /\ scenario = "loop"
    /\ ncancel = 0
    /\ leaf[1] = "rejected"
    /\ leaf[2] = "rejected"
    /\ CountEv("timerFired") = 2
    /\ At(Len(trace)) = Ev("resolve", ValueOf(3))

\* C39: loop never calls its reject callback.
C39_LoopNeverRejects == scenario = "loop" => CountEv("reject") = 0

\* C39 witness: every attempt the loop made has failed.
C39_Witness ==
    /\ scenario = "loop"
    /\ CountEv("err") = length
    /\ ncancel = 0

\* C40: in one execution of loop, at most one attempt is in flight or one
\* timer is pending, never both; a timer is set only while none is pending;
\* and attempt k+1 is forked only by the timer that was set when attempt k
\* failed.
C40_LoopIsSequential ==
    scenario = "loop" =>
        /\ Cardinality({k \in 1..length : leaf[k] = "pending"})
              + (IF timeout = "pending" THEN 1 ELSE 0) <= 1
        /\ \A m \in Idx :
              /\ trace[m].ev = "setTimeout" => ~TimerPendingAt(m)
              /\ (trace[m].ev = "fork" /\ trace[m].arg[1] > 1) =>
                    LET k == trace[m].arg[1] - 1
                    IN  /\ At(m - 1) = Ev("timerFired", k)
                        /\ Before("err", k, m)
                        /\ Before("setTimeout", k, m)

\* C40 witness: the second attempt is in flight, after the first one failed
\* and the timer fired.
C40_Witness ==
    /\ scenario = "loop"
    /\ leaf[1] = "rejected"
    /\ leaf[2] = "pending"
    /\ timeout = "fired"

====
